---- MODULE Spec2Model ----
(***************************************************************************)
(* A model of the MapReduce job engine of src/src/MapReduceClient.h (the   *)
(* framework part, lines 148-406), of the phase barrier declared in        *)
(* src/src/Barrier.h and of the character counting client of               *)
(* src/examples/SampleClient.cpp.                                          *)
(*                                                                         *)
(* Worker ids are 0..threadCount-1 as in the code.  C++ vectors are        *)
(* 0-based and TLA+ sequences 1-based: element i of a vector is element    *)
(* i+1 of the sequence that models it.                                     *)
(***************************************************************************)
EXTENDS Integers, Sequences, FiniteSets, Bags, TLC

\* ------------------------------------------------------------- bounds
\* The worker count plus the number of input records of a job is at most this.
MaxWork == 4

\* The characters (keys) are 1..NumKeys.
NumKeys == 2

\* The buffers handed to a shuffle hold at most this many pairs together.
MaxPairs == 4

\* The calls of barrier() each participant makes in the barrier's own runs.
MaxRounds == 3

\* The field values a progress word is computed from are 0..MaxField and
\* 2^31-1-MaxField..2^31-1; at most MaxField increments are applied to it.
MaxField == 2

\* ---------------------------------------------------- program constants
UNDEFINED_STAGE == 0

MAP_STAGE == 1

SHUFFLE_STAGE == 2

REDUCE_STAGE == 3

\* 0x7FFFFFFF: the largest value of the 31-bit processed and total fields.
FieldMask == 2147483647

\* The number of values of the two stage bits (bits 63..62).
StageMod == 4

VARIABLES
    threadCount,        \* JobContext::threadCount
    inputVec,           \* *JobContext::inputVec: a sequence of strings (V1)
    outputVec,          \* *JobContext::outputVec: a sequence of <<char, count>>
    vecIndex,           \* JobContext::vecIndex
    jobState,           \* JobContext::jobState, as its three bit fields
    outputMutex,        \* JobContext::outputMutex: its owner, or NoThread
    shuffledVecsQueue,  \* JobContext::shuffledVecsQueue
    intermediateVec,    \* ThreadContext::intermediateVec, per worker
    count,              \* Barrier::count
    generation,         \* Barrier::generation
    myGen,              \* the generation a waiting caller of barrier() recorded
    pc,                 \* each worker's position in runMapReduceJob
    index,              \* runMapReduceJob's local `index`, per worker
    emitArg,            \* the pair a running reduce() hands to emit3, per worker
    pq,                 \* performShuffleStage's heap: a set of <<key, value, worker>>
    indices,            \* performShuffleStage's `indices`
    currKey,            \* performShuffleStage's `currKey`
    group,              \* performShuffleStage's `group`
    mainPc,             \* the position of the caller of startMapReduceJob
    spawned,            \* the number of threads startMapReduceJob has created
    mapLog,             \* history: per input index, the workers that mapped it
    reduceLog,          \* history: per bucket index, the workers that reduced it
    arrived,            \* history: per worker, the barrier() calls it has made
    returned,           \* history: per worker, the barrier() calls that returned
    emitted,            \* history: the bag of pairs handed to emit2
    queueWriters,       \* history: the workers that wrote shuffledVecsQueue
    apiPc,              \* per client thread: the API call it is in and where
    joinNext,           \* waitForJob's position in its loop over `threads`
    calledWaitForJob,   \* JobContext::calledWaitForJob
    joined,             \* per worker: the join() calls made on its std::thread
    freed,              \* `delete jobContext` has run
    obs,                \* per client thread: what its last getJobState decoded
    waitsReturned,      \* history: the client's calls of waitForJob that returned,
                        \* counted up to two
    process,            \* the process: how it ended, if it did, what the engine
                        \* wrote to std::cerr, and the failure that occurred
    wordCalc            \* a 64-bit progress word computed on its own: the
                        \* fields encoded, the word, the increments, the decoding

jobVars == <<threadCount, inputVec, outputVec, vecIndex, jobState, outputMutex,
             shuffledVecsQueue, intermediateVec>>

barrierVars == <<count, generation, myGen>>

workerVars == <<pc, index, emitArg>>

shuffleVars == <<pq, indices, currKey, group>>

mainVars == <<mainPc, spawned>>

clientVars == <<apiPc, joinNext, calledWaitForJob, joined, freed, obs, waitsReturned>>

historyVars == <<mapLog, reduceLog, arrived, returned, emitted, queueWriters>>

vars == <<jobVars, barrierVars, workerVars, shuffleVars, mainVars, clientVars,
          historyVars, process, wordCalc>>

NoThread == -1

NoKey == 0

Keys == 1..NumKeys

Workers == 0..(threadCount - 1)

\* ------------------------------------------------------------ helpers
RECURSIVE SeqsUpTo(_, _)
\* All sequences over S of length at most n.
SeqsUpTo(S, n) ==
    IF n = 0 THEN {<<>>}
    ELSE LET shorter == SeqsUpTo(S, n - 1)
         IN shorter \cup {Append(s, x) : s \in {q \in shorter : Len(q) = n - 1}, x \in S}

RECURSIVE SeqToBag(_)
SeqToBag(s) ==
    IF s = <<>> THEN EmptyBag
    ELSE SetToBag({s[1]}) (+) SeqToBag(Tail(s))

RECURSIVE SumBags(_, _)
\* The bag union of f[x] for x in S.
SumBags(f, S) ==
    IF S = {} THEN EmptyBag
    ELSE LET x == CHOOSE y \in S : TRUE
         IN f[x] (+) SumBags(f, S \ {x})

RECURSIVE SumLen(_, _)
SumLen(f, S) ==
    IF S = {} THEN 0
    ELSE LET x == CHOOSE y \in S : TRUE
         IN Len(f[x]) + SumLen(f, S \ {x})

\* K2::operator< of the client: KChar compares the characters.
KeyLess(a, b) == a < b

KeyEquiv(a, b) == ~KeyLess(a, b) /\ ~KeyLess(b, a)

IsSortedByKey(s) == \A i \in 1..(Len(s) - 1) : ~KeyLess(s[i + 1][1], s[i][1])

\* ------------------------------------------------------ progress word
\* The 64-bit word is kept as its three bit fields: stage (bits 63..62),
\* processed (bits 61..31) and total (bits 30..0).  The arguments are sizes
\* of the model's vectors, far below 2^31, so the fields do not overlap.
encodeJobState(stage, processed, total) ==
    [stage |-> stage % StageMod, processed |-> processed, total |-> total]

\* fetch_add(1ULL << 31): one more in the processed field; the carry out of
\* its 31 bits goes into the stage bits, the carry out of those is lost.
AddProcessed(w) ==
    IF w.processed = FieldMask
    THEN [w EXCEPT !.processed = 0, !.stage = (w.stage + 1) % StageMod]
    ELSE [w EXCEPT !.processed = w.processed + 1]

\* ------------------------------------------------- the sample client
\* counts[c]: the occurrences of character c in the string.
CharCount(str, c) == Cardinality({i \in 1..Len(str) : str[i] = c})

RECURSIVE MapEmitsFrom(_, _)
\* The loop of CounterClient::map over the characters c, c+1, ...: one
\* emit2(c, counts[c]) per character that occurs, in ascending order.
MapEmitsFrom(str, c) ==
    IF c > NumKeys THEN <<>>
    ELSE IF CharCount(str, c) = 0 THEN MapEmitsFrom(str, c + 1)
    ELSE <<(<<c, CharCount(str, c)>>)>> \o MapEmitsFrom(str, c + 1)

\* CounterClient::map: the pairs it hands to emit2, in order.
ClientMap(str) == MapEmitsFrom(str, 1)

RECURSIVE SumValues(_)
SumValues(pairs) ==
    IF pairs = <<>> THEN 0 ELSE pairs[1][2] + SumValues(Tail(pairs))

\* CounterClient::reduce: the one pair it hands to emit3: the character of
\* the bucket's first pair and the sum of the bucket's counts.
ClientReduce(pairs) == <<pairs[1][1], SumValues(pairs)>>

\* --------------------------------------------------------- local sort
RECURSIVE SortedOrders(_, _)
\* std::sort is not stable: every arrangement of the buffer that is ordered by
\* key is a possible result.  rem: the positions not placed yet.
SortedOrders(buf, rem) ==
    IF rem = {} THEN {<<>>}
    ELSE LET mins == {i \in rem : \A j \in rem : ~KeyLess(buf[j][1], buf[i][1])}
         IN UNION {{<<buf[i]>> \o r : r \in SortedOrders(buf, rem \ {i})} : i \in mins}

\* A worker that leaves its buffer as the map phase filled it.
SortNothing(buf) == {buf}

SortResults(buf) == SortedOrders(buf, 1..Len(buf))

\* ------------------------------------------------------- work claiming
\* A fetch_add that hands back the counter's new value, as `++vecIndex` would.
FetchAddReturnsNew(v, d) == [old |-> v + d, new |-> v + d]

\* std::atomic<int>::fetch_add(d) on a counter holding v.
FetchAdd(v, d) == [old |-> v, new |-> v + d]

\* `if (index >= job->inputVec->size()) break;`
MapInRange(i) == i < Len(inputVec)

\* A reduce loop that stops one bucket early.
ReduceInRangeOffByOne(i) == i + 1 < Len(shuffledVecsQueue)

\* `if (index >= job->shuffledVecsQueue.size()) break;`
ReduceInRange(i) == i < Len(shuffledVecsQueue)

\* `if (threadId == 0)`
IsCoordinator(t) == t = 0

\* A coordinator that leaves the work index where the map phase left it.
IndexNotReset == vecIndex

\* `job->vecIndex.store(0)`
IndexAfterShuffle == 0

\* A worker that goes on without the first barrier().
AfterSortNoBarrier(t) == IF t = 0 THEN "shuffle_start" ELSE "barrier2"

\* A worker that returns at once when the map phase left it nothing to sort.
AfterSortIdleExits(t) == IF intermediateVec[t] = <<>> THEN "exit" ELSE "barrier1"

\* The worker's position once its sort is done: `job->barrier.barrier()`.
AfterSort(t) == "barrier1"

\* Workers other than the coordinator that skip the second barrier().
AfterBarrier1NoSecond(t) == IF IsCoordinator(t) THEN "shuffle_start" ELSE "reduce_claim"

\* The worker's position once the first barrier() returned.
AfterBarrier1(t) == IF IsCoordinator(t) THEN "shuffle_start" ELSE "barrier2"

\* The worker's position once the coordinator's block is done.
AfterReset(t) == "barrier2"

\* -------------------------------------------------------------- start
\* The input strings of the jobs: the empty string and the one-character ones.
Records == {<<>>} \cup {<<k>> : k \in Keys}

\* The process runs, nothing has failed and std::cerr is empty.
Running == [status |-> "running", stderr |-> <<>>, fault |-> "none"]

\* SYSTEM_ERROR_MSG(msg) followed by EXIT_ON_ERROR(ERROR_EXIT_CODE): one line
\* `system error: <msg>` on std::cerr, then exit(1).
SystemErrorExit(what, msg) ==
    [status |-> "exit1",
     stderr |-> <<[prefix |-> "system error: ", text |-> msg]>>,
     fault |-> what]

\* An exception that no handler on the thread's stack catches leaves the
\* thread function: std::terminate, whose default handler is abort().  The
\* engine writes nothing and the process does not end through exit(1).
UncaughtInThread(what) == [status |-> "abort", stderr |-> <<>>, fault |-> what]

\* No progress word is being computed on its own.
NoWord == [at |-> "none"]

\* No API call is under way.
Idle == [call |-> "none", at |-> "idle"]

\* What a client holds before its first getJobState: SampleClient's
\* `JobState last_state = {UNDEFINED_STAGE, 0}`.
InitialObs ==
    [stage |-> UNDEFINED_STAGE, processed |-> 0, total |-> 0,
     percentage |-> [num |-> 0, den |-> 1]]

\* The client threads in C that hold the handle, none of them in a call;
\* `calledWaitForJob(false)` and N threads not yet joined.
ClientInit(C) ==
    /\ apiPc = [c \in C |-> Idle]
    /\ joinNext = [c \in C |-> 0]
    /\ calledWaitForJob = FALSE
    /\ joined = [t \in Workers |-> 0]
    /\ freed = FALSE
    /\ obs = [c \in C |-> InitialObs]
    /\ waitsReturned = 0
    /\ process = Running

\* The state when `new JobContext(...)` has returned, for every worker count
\* (the precondition is multiThreadLevel >= 1) and every input vector with
\* worker count plus records at most maxWork, and the client threads in C.
JobInit(maxWork, C) ==
    /\ threadCount \in 1..maxWork
    /\ inputVec \in SeqsUpTo(Records, maxWork - threadCount)
    /\ outputVec = <<>>
    /\ vecIndex = 0
    /\ jobState = encodeJobState(UNDEFINED_STAGE, 0, 0)
    /\ outputMutex = NoThread
    /\ shuffledVecsQueue = <<>>
    /\ intermediateVec = [t \in Workers |-> <<>>]
    /\ count = 0
    /\ generation = 0
    /\ myGen = [t \in Workers |-> 0]
    /\ pc = [t \in Workers |-> "idle"]
    /\ index = [t \in Workers |-> 0]
    /\ emitArg = [t \in Workers |-> <<>>]
    /\ pq = {}
    /\ indices = [t \in Workers |-> 0]
    /\ currKey = NoKey
    /\ group = <<>>
    /\ mainPc = "start_store"
    /\ spawned = 0
    /\ mapLog = EmptyBag
    /\ reduceLog = EmptyBag
    /\ arrived = [t \in Workers |-> 0]
    /\ returned = [t \in Workers |-> 0]
    /\ emitted = EmptyBag
    /\ queueWriters = {}
    /\ ClientInit(C)

\* The jobs of the whole-job specification, with no client call after start.
Init == JobInit(MaxWork, {}) /\ wordCalc = NoWord

\* startMapReduceJob, `job->jobState.store(initState)`.
StartStore ==
    /\ mainPc = "start_store"
    /\ jobState' = encodeJobState(MAP_STAGE, 0, Len(inputVec))
    /\ mainPc' = "spawn"
    /\ UNCHANGED <<threadCount, inputVec, outputVec, vecIndex, outputMutex,
                   shuffledVecsQueue, intermediateVec>>
    /\ UNCHANGED <<barrierVars, workerVars, shuffleVars, spawned, clientVars, process, wordCalc, historyVars>>

\* startMapReduceJob, one turn of the loop that creates the threads; the
\* function returns after the last one.
StartSpawn ==
    /\ mainPc = "spawn"
    /\ spawned < threadCount
    /\ pc' = [pc EXCEPT ![spawned] = "map_claim"]
    /\ spawned' = spawned + 1
    /\ mainPc' = IF spawned + 1 < threadCount THEN "spawn" ELSE "started"
    /\ UNCHANGED <<jobVars, barrierVars, index, emitArg, shuffleVars, clientVars, process, wordCalc, historyVars>>

\* ---------------------------------------------------------- map phase
\* One turn of the map loop up to the return of the client's map:
\*   `index = job->vecIndex.fetch_add(1); if (index >= size) break;`
\*   `job->client->map(key, value, tc)`: the client calls emit2 for each pair,
\*   and emit2 appends it to the caller's own intermediateVec;
\* or, when the claim is out of range, the break and the std::sort of the
\* worker's own intermediateVec.  What follows the fetch_add touches only the
\* worker's own buffer, so it is taken in the same step.
MapClaim(t) ==
    /\ pc[t] = "map_claim"
    /\ LET fa == FetchAdd(vecIndex, 1)
       IN /\ vecIndex' = fa.new
          /\ index' = [index EXCEPT ![t] = fa.old]
          /\ IF MapInRange(fa.old)
             THEN LET pairs == ClientMap(inputVec[fa.old + 1])
                  IN /\ intermediateVec' = [intermediateVec EXCEPT ![t] = @ \o pairs]
                     /\ emitted' = emitted (+) SeqToBag(pairs)
                     /\ mapLog' = mapLog (+) SetToBag({[idx |-> fa.old, by |-> t]})
                     /\ pc' = [pc EXCEPT ![t] = "map_done"]
             ELSE /\ \E sorted \in SortResults(intermediateVec[t]) :
                        intermediateVec' = [intermediateVec EXCEPT ![t] = sorted]
                  /\ pc' = [pc EXCEPT ![t] = AfterSort(t)]
                  /\ UNCHANGED <<emitted, mapLog>>
    /\ UNCHANGED <<threadCount, inputVec, outputVec, jobState, outputMutex,
                   shuffledVecsQueue>>
    /\ UNCHANGED <<barrierVars, emitArg, shuffleVars, mainVars, process, wordCalc, clientVars>>
    /\ UNCHANGED <<reduceLog, arrived, returned, queueWriters>>

\* `job->jobState.fetch_add(1ULL << 31)` after map returned.
MapDone(t) ==
    /\ pc[t] = "map_done"
    /\ jobState' = AddProcessed(jobState)
    /\ pc' = [pc EXCEPT ![t] = "map_claim"]
    /\ UNCHANGED <<threadCount, inputVec, outputVec, vecIndex, outputMutex,
                   shuffledVecsQueue, intermediateVec>>
    /\ UNCHANGED <<barrierVars, index, emitArg, shuffleVars, mainVars, process, wordCalc, clientVars, historyVars>>

\* ------------------------------------------------------------ barrier
\* Barrier::barrier() is declared in Barrier.h; its body is not among the
\* sources.  It is modelled from its members (mutex, cv, count, generation,
\* numThreads) and its documented algorithm: under the mutex the caller
\* increments count; the caller that makes it numThreads increments
\* generation, resets count and broadcasts; any other caller records the
\* generation and waits until generation differs from it.
BarrierIsLast == count + 1 = threadCount

\* A barrier whose waiting callers wait for the counter to be reset.
BarrierReleasedByCount(t) == count = 0

\* The condition a waiting caller waits for.
BarrierReleased(t) == generation # myGen[t]

\* The call of barrier() by worker t, from its entry to its return or to its
\* wait on the condition variable.
BarrierArrive(t, waitPc, nextPc) ==
    /\ arrived' = [arrived EXCEPT ![t] = @ + 1]
    /\ IF BarrierIsLast
       THEN /\ generation' = generation + 1
            /\ count' = 0
            /\ myGen' = myGen
            /\ pc' = [pc EXCEPT ![t] = nextPc]
            /\ returned' = [returned EXCEPT ![t] = @ + 1]
       ELSE /\ generation' = generation
            /\ count' = count + 1
            /\ myGen' = [myGen EXCEPT ![t] = generation]
            /\ pc' = [pc EXCEPT ![t] = waitPc]
            /\ returned' = returned

\* The return of a waiting caller of barrier().
BarrierWake(t, nextPc) ==
    /\ BarrierReleased(t)
    /\ pc' = [pc EXCEPT ![t] = nextPc]
    /\ returned' = [returned EXCEPT ![t] = @ + 1]
    /\ UNCHANGED <<barrierVars, arrived>>

\* The first `job->barrier.barrier()` of runMapReduceJob.
Barrier1Arrive(t) ==
    /\ pc[t] = "barrier1"
    /\ BarrierArrive(t, "wait1", AfterBarrier1(t))
    /\ UNCHANGED <<jobVars, index, emitArg, shuffleVars, mainVars, process, wordCalc, clientVars>>
    /\ UNCHANGED <<mapLog, reduceLog, emitted, queueWriters>>

Barrier1Wake(t) ==
    /\ pc[t] = "wait1"
    /\ BarrierWake(t, AfterBarrier1(t))
    /\ UNCHANGED <<jobVars, index, emitArg, shuffleVars, mainVars, process, wordCalc, clientVars>>
    /\ UNCHANGED <<mapLog, reduceLog, emitted, queueWriters>>

\* The second `job->barrier.barrier()` of runMapReduceJob.
Barrier2Arrive(t) ==
    /\ pc[t] = "barrier2"
    /\ BarrierArrive(t, "wait2", "reduce_claim")
    /\ UNCHANGED <<jobVars, index, emitArg, shuffleVars, mainVars, process, wordCalc, clientVars>>
    /\ UNCHANGED <<mapLog, reduceLog, emitted, queueWriters>>

Barrier2Wake(t) ==
    /\ pc[t] = "wait2"
    /\ BarrierWake(t, "reduce_claim")
    /\ UNCHANGED <<jobVars, index, emitArg, shuffleVars, mainVars, process, wordCalc, clientVars>>
    /\ UNCHANGED <<mapLog, reduceLog, emitted, queueWriters>>

\* ------------------------------------------------------------ shuffle
\* A heap ordered the other way round (a max-heap).
PqCompMax(a, b) == KeyLess(a[1], b[1])

\* `comp`: the heap's order, `*(std::get<0>(b)) < *(std::get<0>(a))`.
PqComp(a, b) == KeyLess(b[1], a[1])

\* The elements pq.top() may be: those no other element comes before.  Which
\* of several elements with equivalent keys is on top is the heap's matter.
PqTops(q) == {e \in q : \A f \in q : ~PqComp(e, f)}

\* An inner loop that tests one direction of the equivalence only.
SameKeyOneSided(e) == ~KeyLess(e[1], currKey)

\* The condition of the inner loop on the heap's top element.
SameKeyAsCurr(e) == ~KeyLess(currKey, e[1]) /\ ~KeyLess(e[1], currKey)

\* A merge that never pushes the last pair of a buffer.
HasNextOffByOne(i) == indices[i] + 1 < Len(intermediateVec[i])

\* `indices[i] < job->threadContexts[i].intermediateVec.size()`
HasNext(i) == indices[i] < Len(intermediateVec[i])

\* The heap seeded with the first element of each non-empty buffer.
InitialHeap ==
    {<<intermediateVec[i][1][1], intermediateVec[i][1][2], i>> :
        i \in {j \in Workers : intermediateVec[j] # <<>>}}

\* A total that counts the coordinator's own buffer only.
ShuffleTotalOwnBuffer == Len(intermediateVec[0])

\* `for (const auto& tc : job->threadContexts) totalPairs += tc.intermediateVec.size()`
ShuffleTotal == SumLen(intermediateVec, Workers)

\* A shuffle that announces itself with the stage of the start's store.
StageAtShuffleCopied == MAP_STAGE

\* The stage performShuffleStage encodes.
StageAtShuffle == SHUFFLE_STAGE

\* A shuffle that leaves the progress word alone when there is no pair.
ShuffleWordSkipEmpty(total) ==
    IF total = 0 THEN jobState ELSE encodeJobState(SHUFFLE_STAGE, 0, total)

\* `job->jobState.store(encodeJobState(SHUFFLE_STAGE, 0, totalPairs))`: the
\* store is not conditional on totalPairs.
ShuffleWord(total) == encodeJobState(StageAtShuffle, 0, total)

\* performShuffleStage up to its first loop: the sum of the sizes, the
\* store of the progress word, the heap and `indices`.
ShuffleStart(t) ==
    /\ pc[t] = "shuffle_start"
    /\ jobState' = ShuffleWord(ShuffleTotal)
    /\ pq' = InitialHeap
    /\ indices' = [i \in Workers |-> IF intermediateVec[i] # <<>> THEN 1 ELSE 0]
    /\ pc' = [pc EXCEPT ![t] = "shuffle_top"]
    /\ UNCHANGED <<threadCount, inputVec, outputVec, vecIndex, outputMutex,
                   shuffledVecsQueue, intermediateVec>>
    /\ UNCHANGED <<barrierVars, index, emitArg, currKey, group, mainVars, process, wordCalc, clientVars, historyVars>>

\* `while (!pq.empty()) { K2* currKey = std::get<0>(pq.top()); IntermediateVec group;`
ShuffleTop(t) ==
    /\ pc[t] = "shuffle_top"
    /\ IF pq = {}
       THEN /\ pc' = [pc EXCEPT ![t] = "store_reduce"]
            /\ UNCHANGED <<currKey, group>>
       ELSE /\ \E e \in PqTops(pq) : currKey' = e[1]
            /\ group' = <<>>
            /\ pc' = [pc EXCEPT ![t] = "shuffle_drain"]
    /\ UNCHANGED <<jobVars, barrierVars, index, emitArg, pq, indices, mainVars, process, wordCalc, clientVars,
                   historyVars>>

\* One turn of the inner loop: when the heap is not empty and the key of its
\* top is equivalent to currKey, pop the top, append it to the group, push the
\* next pair of the same worker and count the pair; otherwise leave the loop,
\* `job->shuffledVecsQueue.push_back(std::move(group))`.
ShuffleDrain(t) ==
    /\ pc[t] = "shuffle_drain"
    /\ \E top \in (IF pq = {} THEN {<<>>} ELSE PqTops(pq)) :
          IF pq # {} /\ SameKeyAsCurr(top)
          THEN LET i == top[3]
               IN /\ group' = Append(group, <<top[1], top[2]>>)
                  /\ IF HasNext(i)
                     THEN /\ pq' = (pq \ {top}) \cup
                                   {<<intermediateVec[i][indices[i] + 1][1],
                                      intermediateVec[i][indices[i] + 1][2], i>>}
                          /\ indices' = [indices EXCEPT ![i] = @ + 1]
                     ELSE /\ pq' = pq \ {top}
                          /\ indices' = indices
                  /\ jobState' = AddProcessed(jobState)
                  /\ UNCHANGED <<shuffledVecsQueue, queueWriters, pc>>
          ELSE /\ shuffledVecsQueue' = Append(shuffledVecsQueue, group)
               /\ queueWriters' = queueWriters \cup {t}
               /\ pc' = [pc EXCEPT ![t] = "shuffle_top"]
               /\ UNCHANGED <<jobState, pq, indices, group>>
    /\ UNCHANGED <<threadCount, inputVec, outputVec, vecIndex, outputMutex,
                   intermediateVec>>
    /\ UNCHANGED <<barrierVars, index, emitArg, currKey, mainVars, process, wordCalc, clientVars>>
    /\ UNCHANGED <<mapLog, reduceLog, arrived, returned, emitted>>

\* A coordinator that announces the reduce phase with the stage of the
\* start's store.
StageAtReduceCopied == MAP_STAGE

\* The stage runMapReduceJob encodes once the shuffle is done.
StageAtReduce == REDUCE_STAGE

\* A reduce total that is one bucket short.
ReduceTotalOffByOne == Len(shuffledVecsQueue) - 1

\* The total of the reduce stage: `job->shuffledVecsQueue.size()`.
ReduceTotal == Len(shuffledVecsQueue)

\* `job->jobState.store(encodeJobState(REDUCE_STAGE, 0, shuffledVecsQueue.size()))`
StoreReduce(t) ==
    /\ pc[t] = "store_reduce"
    /\ jobState' = encodeJobState(StageAtReduce, 0, ReduceTotal)
    /\ pc' = [pc EXCEPT ![t] = "reset_index"]
    /\ UNCHANGED <<threadCount, inputVec, outputVec, vecIndex, outputMutex,
                   shuffledVecsQueue, intermediateVec>>
    /\ UNCHANGED <<barrierVars, index, emitArg, shuffleVars, mainVars, process, wordCalc, clientVars, historyVars>>

\* `job->vecIndex.store(0)`
ResetIndex(t) ==
    /\ pc[t] = "reset_index"
    /\ vecIndex' = IndexAfterShuffle
    /\ pc' = [pc EXCEPT ![t] = AfterReset(t)]
    /\ UNCHANGED <<threadCount, inputVec, outputVec, jobState, outputMutex,
                   shuffledVecsQueue, intermediateVec>>
    /\ UNCHANGED <<barrierVars, index, emitArg, shuffleVars, mainVars, process, wordCalc, clientVars, historyVars>>

\* ------------------------------------------------------- reduce phase
\* One turn of the reduce loop up to the client's call of emit3:
\*   `index = job->vecIndex.fetch_add(1); if (index >= size) break;`
\*   `job->client->reduce(vec, tc)`, which reads the bucket.
\* The thread function returns on the break.
ReduceClaim(t) ==
    /\ pc[t] = "reduce_claim"
    /\ LET fa == FetchAdd(vecIndex, 1)
       IN /\ vecIndex' = fa.new
          /\ index' = [index EXCEPT ![t] = fa.old]
          /\ IF ReduceInRange(fa.old)
             THEN LET bucket == shuffledVecsQueue[fa.old + 1]
                  IN /\ emitArg' = [emitArg EXCEPT ![t] = ClientReduce(bucket)]
                     /\ reduceLog' = reduceLog (+)
                           SetToBag({[idx |-> fa.old, by |-> t, bucket |-> bucket]})
                     /\ pc' = [pc EXCEPT ![t] = "emit3_lock"]
             ELSE /\ pc' = [pc EXCEPT ![t] = "exit"]
                  /\ UNCHANGED <<emitArg, reduceLog>>
    /\ UNCHANGED <<threadCount, inputVec, outputVec, jobState, outputMutex,
                   shuffledVecsQueue, intermediateVec>>
    /\ UNCHANGED <<barrierVars, shuffleVars, mainVars, process, wordCalc, clientVars>>
    /\ UNCHANGED <<mapLog, arrived, returned, emitted, queueWriters>>

\* An emit3 that takes no notice of the mutex's owner.
MutexNeverHeld == TRUE

\* The lock of a std::mutex is granted only when no thread owns it.
MutexFree == outputMutex = NoThread

\* emit3, `std::unique_lock<std::mutex> lock(job->outputMutex)`.
Emit3Lock(t) ==
    /\ pc[t] = "emit3_lock"
    /\ MutexFree
    /\ outputMutex' = t
    /\ pc' = [pc EXCEPT ![t] = "emit3_append"]
    /\ UNCHANGED <<threadCount, inputVec, outputVec, vecIndex, jobState,
                   shuffledVecsQueue, intermediateVec>>
    /\ UNCHANGED <<barrierVars, index, emitArg, shuffleVars, mainVars, process, wordCalc, clientVars, historyVars>>

\* emit3, `job->outputVec->emplace_back(key, value)` and the release of the
\* lock at the end of the block; reduce returns.
Emit3Append(t) ==
    /\ pc[t] = "emit3_append"
    /\ outputVec' = Append(outputVec, emitArg[t])
    /\ outputMutex' = NoThread
    /\ pc' = [pc EXCEPT ![t] = "reduce_done"]
    /\ UNCHANGED <<threadCount, inputVec, vecIndex, jobState, shuffledVecsQueue,
                   intermediateVec>>
    /\ UNCHANGED <<barrierVars, index, emitArg, shuffleVars, mainVars, process, wordCalc, clientVars, historyVars>>

\* `job->jobState.fetch_add(1ULL << 31)` after reduce returned.
ReduceDone(t) ==
    /\ pc[t] = "reduce_done"
    /\ jobState' = AddProcessed(jobState)
    /\ pc' = [pc EXCEPT ![t] = "reduce_claim"]
    /\ UNCHANGED <<threadCount, inputVec, outputVec, vecIndex, outputMutex,
                   shuffledVecsQueue, intermediateVec>>
    /\ UNCHANGED <<barrierVars, index, emitArg, shuffleVars, mainVars, process, wordCalc, clientVars, historyVars>>

\* ------------------------------------------------------ specification
Next ==
    \/ StartStore
    \/ StartSpawn
    \/ \E t \in Workers : MapClaim(t)
    \/ \E t \in Workers : MapDone(t)
    \/ \E t \in Workers : Barrier1Arrive(t)
    \/ \E t \in Workers : Barrier1Wake(t)
    \/ \E t \in Workers : ShuffleStart(t)
    \/ \E t \in Workers : ShuffleTop(t)
    \/ \E t \in Workers : ShuffleDrain(t)
    \/ \E t \in Workers : StoreReduce(t)
    \/ \E t \in Workers : ResetIndex(t)
    \/ \E t \in Workers : Barrier2Arrive(t)
    \/ \E t \in Workers : Barrier2Wake(t)
    \/ \E t \in Workers : ReduceClaim(t)
    \/ \E t \in Workers : Emit3Lock(t)
    \/ \E t \in Workers : Emit3Append(t)
    \/ \E t \in Workers : ReduceDone(t)

Spec == Init /\ [][Next]_vars

\* --------------------------------------------------- the client's calls
\* The client threads that hold the job handle.
Clients == DOMAIN apiPc

\* A getJobState that reports 0% for a phase with nothing to do.
PercentageZeroWhenEmpty(processed, total) ==
    IF total = 0 THEN [num |-> 0, den |-> 1]
                 ELSE [num |-> 100 * processed, den |-> total]

\* `(total == 0) ? 100.0f : (100.0f * processed / total)`, as the fraction
\* num/den.
Percentage(processed, total) ==
    IF total = 0 THEN [num |-> 100, den |-> 1]
                 ELSE [num |-> 100 * processed, den |-> total]

\* The fraction q is the number n.
PercentageIs(q, n) == q.num = n * q.den

\* getJobState's decoding of the loaded word w: the stage and the percentage
\* it writes to *state, and its locals `processed` and `total`.
DecodeJobState(w) ==
    [stage |-> w.stage, processed |-> w.processed, total |-> w.total,
     percentage |-> Percentage(w.processed, w.total)]

\* A client may call the API on the handle: startMapReduceJob has returned
\* it, the client is in no other call and the handle is not closed.
MayCall(c) == mainPc = "started" /\ apiPc[c] = Idle /\ ~freed

\* getJobState: one atomic load of the progress word, then the decoding.
GetJobState(c) ==
    /\ MayCall(c)
    /\ obs' = [obs EXCEPT ![c] = DecodeJobState(jobState)]
    /\ UNCHANGED <<jobVars, barrierVars, workerVars, shuffleVars, mainVars, process, wordCalc, historyVars>>
    /\ UNCHANGED <<apiPc, joinNext, calledWaitForJob, joined, freed, waitsReturned>>

\* The client calls waitForJob.
WaitForJob(c) ==
    /\ MayCall(c)
    /\ apiPc' = [apiPc EXCEPT ![c] = [call |-> "wait", at |-> "check"]]
    /\ UNCHANGED <<jobVars, barrierVars, workerVars, shuffleVars, mainVars, process, wordCalc, historyVars>>
    /\ UNCHANGED <<joinNext, calledWaitForJob, joined, freed, obs, waitsReturned>>

\* A closeJobHandle that deletes the context without waiting.
CloseSkipsWait == "delete"

\* closeJobHandle begins with `waitForJob(job)`.
CloseFirstStep == "check"

\* The client calls closeJobHandle.
CloseJobHandle(c) ==
    /\ MayCall(c)
    /\ apiPc' = [apiPc EXCEPT ![c] = [call |-> "close", at |-> CloseFirstStep]]
    /\ UNCHANGED <<jobVars, barrierVars, workerVars, shuffleVars, mainVars, process, wordCalc, historyVars>>
    /\ UNCHANGED <<joinNext, calledWaitForJob, joined, freed, obs, waitsReturned>>

\* Where the caller of waitForJob is once waitForJob returns: back in the
\* client, or in closeJobHandle before its delete.
AfterWait(c) ==
    IF apiPc[c].call = "close" THEN [call |-> "close", at |-> "delete"] ELSE Idle

\* The count of returned waitForJob calls once the waitForJob that c is in
\* returns; the one closeJobHandle makes is not counted.
WaitsAfterReturn(c) ==
    IF apiPc[c].call = "wait" /\ waitsReturned < 2 THEN waitsReturned + 1
                                                   ELSE waitsReturned

\* waitForJob, `if (!jobContext->calledWaitForJob)`: with the flag set the
\* function returns at once.
WaitCheck(c) ==
    /\ apiPc[c].at = "check"
    /\ IF calledWaitForJob
       THEN /\ apiPc' = [apiPc EXCEPT ![c] = AfterWait(c)]
            /\ waitsReturned' = WaitsAfterReturn(c)
            /\ UNCHANGED joinNext
       ELSE /\ apiPc' = [apiPc EXCEPT ![c].at = "join"]
            /\ joinNext' = [joinNext EXCEPT ![c] = 0]
            /\ UNCHANGED waitsReturned
    /\ UNCHANGED <<jobVars, barrierVars, workerVars, shuffleVars, mainVars, process, wordCalc, historyVars>>
    /\ UNCHANGED <<calledWaitForJob, joined, freed, obs>>

\* A loop that leaves the last thread unjoined.
ThreadsToJoinButLast == threadCount - 1

\* `for (auto& thread : jobContext->threads)`: every thread created by start.
ThreadsToJoin == threadCount

\* join() returns once the thread function has returned.
ThreadFinished(t) == pc[t] = "exit"

\* The callers that are inside join() on thread t.
Joining(t) == {d \in Clients : apiPc[d].at = "joining" /\ joinNext[d] = t}

\* std::thread::joinable(): no join() on the thread has returned yet.
Joinable(t) == joined[t] = Cardinality(Joining(t))

\* waitForJob, the call of one `thread.join()`.  On a thread that is no
\* longer joinable join() throws std::system_error at once; the handler writes
\* the error line and calls exit(1).
WaitJoin(c) ==
    /\ apiPc[c].at = "join"
    /\ joinNext[c] < ThreadsToJoin
    /\ LET t == joinNext[c]
       IN /\ joined' = [joined EXCEPT ![t] = @ + 1]
          /\ IF Joinable(t)
             THEN /\ apiPc' = [apiPc EXCEPT ![c].at = "joining"]
                  /\ UNCHANGED process
             ELSE /\ apiPc' = [apiPc EXCEPT ![c].at = "exit1"]
                  /\ process' = SystemErrorExit("join", "failed to join thread")
    /\ UNCHANGED <<jobVars, barrierVars, workerVars, shuffleVars, mainVars, wordCalc, historyVars>>
    /\ UNCHANGED <<joinNext, calledWaitForJob, freed, obs, waitsReturned>>

\* What a join() that waited for its thread does when the thread function has
\* returned.  A lone caller returns.  Two callers inside join() on the same
\* std::thread at the same time are a data race on the object and an undefined
\* pthread_join: the call may return as if it had joined, or throw.
JoinOutcomes(t) == IF joined[t] > 1 THEN {"returns", "throws"} ELSE {"returns"}

\* waitForJob, the return of one `thread.join()` and the next turn of the loop.
WaitJoinReturn(c) ==
    /\ apiPc[c].at = "joining"
    /\ LET t == joinNext[c]
       IN /\ ThreadFinished(t)
          /\ \E outcome \in JoinOutcomes(t) :
                IF outcome = "returns"
                THEN /\ apiPc' = [apiPc EXCEPT ![c].at = "join"]
                     /\ joinNext' = [joinNext EXCEPT ![c] = t + 1]
                     /\ UNCHANGED process
                ELSE /\ apiPc' = [apiPc EXCEPT ![c].at = "exit1"]
                     /\ process' = SystemErrorExit("join", "failed to join thread")
                     /\ UNCHANGED joinNext
    /\ UNCHANGED <<jobVars, barrierVars, workerVars, shuffleVars, mainVars, wordCalc, historyVars>>
    /\ UNCHANGED <<calledWaitForJob, joined, freed, obs, waitsReturned>>

\* A waitForJob that forgets to record that it has joined.
FlagLeftUnset == calledWaitForJob

\* `jobContext->calledWaitForJob = true`
FlagAfterJoins == TRUE

\* waitForJob, the end of the loop, the assignment of the flag and the return.
WaitSetFlag(c) ==
    /\ apiPc[c].at = "join"
    /\ joinNext[c] >= ThreadsToJoin
    /\ calledWaitForJob' = FlagAfterJoins
    /\ apiPc' = [apiPc EXCEPT ![c] = AfterWait(c)]
    /\ waitsReturned' = WaitsAfterReturn(c)
    /\ UNCHANGED <<jobVars, barrierVars, workerVars, shuffleVars, mainVars, process, wordCalc, historyVars>>
    /\ UNCHANGED <<joinNext, joined, freed, obs>>

\* closeJobHandle, `delete jobContext`, and the return.
CloseDelete(c) ==
    /\ apiPc[c].at = "delete"
    /\ freed' = TRUE
    /\ apiPc' = [apiPc EXCEPT ![c].at = "closed"]
    /\ UNCHANGED <<jobVars, barrierVars, workerVars, shuffleVars, mainVars, process, wordCalc, historyVars>>
    /\ UNCHANGED <<joinNext, calledWaitForJob, joined, obs, waitsReturned>>

\* The jobs of the specification with a client: one client thread, the one
\* that called startMapReduceJob, and worker count plus records below MaxWork.
ApiInit == JobInit(MaxWork - 1, {0}) /\ wordCalc = NoWord

ApiNext ==
    \/ Next
    \/ \E c \in Clients : GetJobState(c)
    \/ \E c \in Clients : WaitForJob(c)
    \/ \E c \in Clients : CloseJobHandle(c)
    \/ \E c \in Clients : WaitCheck(c)
    \/ \E c \in Clients : WaitJoin(c)
    \/ \E c \in Clients : WaitJoinReturn(c)
    \/ \E c \in Clients : WaitSetFlag(c)
    \/ \E c \in Clients : CloseDelete(c)

\* A job and a client that polls, waits and closes in any order it likes.
ApiSpec == ApiInit /\ [][ApiNext]_vars

\* Two client threads hold the handle of a job whose worker count plus
\* records is at most MaxWork - 2.
RaceInit == JobInit(MaxWork - 2, {0, 1}) /\ wordCalc = NoWord

RaceNext ==
    \/ Next
    \/ \E c \in Clients : WaitForJob(c)
    \/ \E c \in Clients : CloseJobHandle(c)
    \/ \E c \in Clients : WaitCheck(c)
    \/ \E c \in Clients : WaitJoin(c)
    \/ \E c \in Clients : WaitJoinReturn(c)
    \/ \E c \in Clients : WaitSetFlag(c)
    \/ \E c \in Clients : CloseDelete(c)

\* A job and two client threads that call waitForJob and closeJobHandle on
\* its handle whenever they like, also at the same time.
RaceSpec == RaceInit /\ [][RaceNext]_vars

\* ------------------------------------------------- fair scheduling
\* A step of worker t's thread function.
WorkerStep(t) ==
    /\ t \in Workers
    /\ \/ MapClaim(t) \/ MapDone(t)
       \/ Barrier1Arrive(t) \/ Barrier1Wake(t)
       \/ ShuffleStart(t) \/ ShuffleTop(t) \/ ShuffleDrain(t)
       \/ StoreReduce(t) \/ ResetIndex(t)
       \/ Barrier2Arrive(t) \/ Barrier2Wake(t)
       \/ ReduceClaim(t) \/ Emit3Lock(t) \/ Emit3Append(t) \/ ReduceDone(t)

FairInit == JobInit(MaxWork - 1, {}) /\ wordCalc = NoWord

\* The job under a scheduler that lets every thread that can run take a step
\* sooner or later: the caller of startMapReduceJob and each worker thread.
FairSpec ==
    /\ FairInit
    /\ [][Next]_vars
    /\ WF_vars(StartStore \/ StartSpawn)
    /\ \A t \in 0..(MaxWork - 1) : WF_vars(WorkerStep(t))

\* ------------------------------------------- the 64-bit progress word
\* The width of uint64_t.
WordBits == 64

\* The bit positions of a word; a word is a function from them to 0 and 1.
BitPos == 0..(WordBits - 1)

RECURSIVE Pow2(_)
Pow2(i) == IF i = 0 THEN 1 ELSE 2 * Pow2(i - 1)

\* The uint64_t with the value n, for 0 <= n < 2^31: `static_cast<uint64_t>`
\* of a stage, or a count the caller keeps below 2^31.
ToWord(n) == [i \in BitPos |-> IF i < 31 THEN (n \div Pow2(i)) % 2 ELSE 0]

\* The value of a word whose bits from 31 up are 0.
FromWord(w) ==
    LET RECURSIVE Low(_)
        Low(i) == IF i < 0 THEN 0 ELSE w[i] * Pow2(i) + Low(i - 1)
    IN Low(30)

\* w << k: the bits shifted past bit 63 are lost.
Shl(w, k) == [i \in BitPos |-> IF i >= k THEN w[i - k] ELSE 0]

\* w >> k
Shr(w, k) == [i \in BitPos |-> IF i + k < WordBits THEN w[i + k] ELSE 0]

\* a | b
BitOr(a, b) == [i \in BitPos |-> IF a[i] + b[i] > 0 THEN 1 ELSE 0]

\* a & b
BitAnd(a, b) == [i \in BitPos |-> a[i] * b[i]]

\* a + b modulo 2^64, bit by bit with the carry.
Add64(a, b) ==
    LET RECURSIVE Carry(_)
        Carry(i) == IF i = 0 THEN 0 ELSE (a[i - 1] + b[i - 1] + Carry(i - 1)) \div 2
    IN [i \in BitPos |-> (a[i] + b[i] + Carry(i)) % 2]

\* An encoding that shifts processed one bit short.
EncodeWordShortShift(stage, processed, total) ==
    BitOr(BitOr(Shl(ToWord(stage), 62), Shl(ToWord(processed), 30)), ToWord(total))

\* encodeJobState on 64-bit words:
\* `(static_cast<uint64_t>(stage) << 62) | (processed << 31) | total`
EncodeWord(stage, processed, total) ==
    BitOr(BitOr(Shl(ToWord(stage), 62), Shl(ToWord(processed), 31)), ToWord(total))

\* getJobState's decoding: `jobState >> 62`, `jobState & 0x7FFFFFFF` and
\* `(jobState >> 31) & 0x7FFFFFFF`.
DecodeWord(w) ==
    [stage |-> FromWord(Shr(w, 62)),
     processed |-> FromWord(BitAnd(Shr(w, 31), ToWord(FieldMask))),
     total |-> FromWord(BitAnd(w, ToWord(FieldMask)))]

\* `jobState.fetch_add(1ULL << 31)`
IncrementWord(w) == Add64(w, Shl(ToWord(1), 31))

\* The values of the processed and total fields the words are computed from.
FieldSamples == (0..MaxField) \cup {FieldMask - k : k \in 0..MaxField}

\* A word is about to be encoded from any stage and any two sample fields;
\* no job runs (one worker, empty input, never started).
WordInit ==
    /\ JobInit(1, {})
    /\ wordCalc \in
          {[at |-> "input",
            in |-> [stage |-> s, processed |-> p, total |-> n],
            word |-> ToWord(0),
            adds |-> 0,
            out |-> [stage |-> 0, processed |-> 0, total |-> 0]] :
              s \in UNDEFINED_STAGE..REDUCE_STAGE, p \in FieldSamples, n \in FieldSamples}

WordUnchanged ==
    UNCHANGED <<jobVars, barrierVars, workerVars, shuffleVars, mainVars, clientVars,
                historyVars, process>>

\* The word is encoded from the three fields.
WordEncode ==
    /\ wordCalc.at = "input"
    /\ wordCalc' = [wordCalc EXCEPT
                       !.word = EncodeWord(wordCalc.in.stage, wordCalc.in.processed,
                                           wordCalc.in.total),
                       !.at = "encoded"]
    /\ WordUnchanged

\* One fetch_add(1ULL << 31) on a word whose processed is below its total.
WordAdd ==
    /\ wordCalc.at = "encoded"
    /\ wordCalc.adds < MaxField
    /\ wordCalc.adds < wordCalc.in.total - wordCalc.in.processed
    /\ wordCalc' = [wordCalc EXCEPT !.word = IncrementWord(@), !.adds = @ + 1]
    /\ WordUnchanged

\* getJobState decodes the word.
WordDecode ==
    /\ wordCalc.at = "encoded"
    /\ wordCalc' = [wordCalc EXCEPT !.out = DecodeWord(wordCalc.word), !.at = "decoded"]
    /\ WordUnchanged

WordNext == WordEncode \/ WordAdd \/ WordDecode

\* encodeJobState, fetch_add and getJobState's decoding on 64-bit words.
WordSpec == WordInit /\ [][WordNext]_vars

\* ------------------------------------------------------------ failures
\* startMapReduceJob: `job->threads.emplace_back(...)` throws
\* std::system_error, which the handler around it catches.
ThreadCreateFails ==
    /\ process.status = "running"
    /\ mainPc = "spawn"
    /\ spawned < threadCount
    /\ process' = SystemErrorExit("thread_create", "failed to create thread")
    /\ UNCHANGED <<jobVars, barrierVars, workerVars, shuffleVars, mainVars, clientVars,
                   historyVars, wordCalc>>

\* emit3: the lock of outputMutex throws std::system_error, which emit3's
\* handler catches.
MutexLockFails(t) ==
    /\ process.status = "running"
    /\ pc[t] = "emit3_lock"
    /\ process' = SystemErrorExit("mutex", "failed to lock mutex or add to output vector")
    /\ UNCHANGED <<jobVars, barrierVars, workerVars, shuffleVars, mainVars, clientVars,
                   historyVars, wordCalc>>

\* emit2: `tc->intermediateVec.emplace_back(key, value)` throws
\* std::bad_alloc while the client's map runs on a claimed record.  emit2 has
\* no handler, nor has the sample client's map, nor runMapReduceJob.
AllocFailEmit2(t) ==
    /\ process.status = "running"
    /\ pc[t] = "map_claim"
    /\ MapInRange(vecIndex)
    /\ ClientMap(inputVec[vecIndex + 1]) # <<>>
    /\ vecIndex' = FetchAdd(vecIndex, 1).new
    /\ index' = [index EXCEPT ![t] = vecIndex]
    /\ process' = UncaughtInThread("alloc")
    /\ UNCHANGED <<threadCount, inputVec, outputVec, jobState, outputMutex,
                   shuffledVecsQueue, intermediateVec>>
    /\ UNCHANGED <<barrierVars, pc, emitArg, shuffleVars, mainVars, clientVars,
                   historyVars, wordCalc>>

\* performShuffleStage: the construction of `pq` or `indices`, or a
\* `pq.emplace` of the seeding loop, throws std::bad_alloc.  The function's
\* only handler ends before them, after the store of the progress word.
AllocFailShuffleHeap(t) ==
    /\ process.status = "running"
    /\ pc[t] = "shuffle_start"
    /\ jobState' = ShuffleWord(ShuffleTotal)
    /\ process' = UncaughtInThread("alloc")
    /\ UNCHANGED <<threadCount, inputVec, outputVec, vecIndex, outputMutex,
                   shuffledVecsQueue, intermediateVec>>
    /\ UNCHANGED <<barrierVars, workerVars, shuffleVars, mainVars, clientVars,
                   historyVars, wordCalc>>

\* performShuffleStage: `group.emplace_back`, `pq.emplace` or
\* `shuffledVecsQueue.push_back` of the merge loop throws std::bad_alloc,
\* outside any handler.
AllocFailShuffleGroup(t) ==
    /\ process.status = "running"
    /\ pc[t] = "shuffle_drain"
    /\ process' = UncaughtInThread("alloc")
    /\ UNCHANGED <<jobVars, barrierVars, workerVars, shuffleVars, mainVars, clientVars,
                   historyVars, wordCalc>>

FaultInit == JobInit(MaxWork - 1, {}) /\ wordCalc = NoWord

\* The steps of the job while the process runs, and the failures.
FaultNext ==
    \/ process.status = "running" /\ Next
    \/ ThreadCreateFails
    \/ \E t \in Workers : MutexLockFails(t)
    \/ \E t \in Workers : AllocFailEmit2(t)
    \/ \E t \in Workers : AllocFailShuffleHeap(t)
    \/ \E t \in Workers : AllocFailShuffleGroup(t)

\* The job in a process where thread creation, the output mutex and the
\* allocations of emit2 and of the shuffle may fail.
FaultSpec == FaultInit /\ [][FaultNext]_vars

\* ------------------------------------------- the shuffle on its own
\* performShuffleStage run on every family of per-worker buffers that are
\* sorted by key, whatever input and client produced them (the input vector is
\* left empty).  The pairs of a job are distinct objects: the value of the
\* j-th pair of worker t's buffer is the tag <<t, j>>.
SortedKeySeqs(m) == {s \in SeqsUpTo(Keys, m) : \A i \in 1..(Len(s) - 1) : ~KeyLess(s[i + 1], s[i])}

RECURSIVE BufferFamilies(_, _)
\* The sequences of n sorted key sequences with at most m keys together.
BufferFamilies(n, m) ==
    IF n = 0 THEN {<<>>}
    ELSE UNION {{<<b>> \o f : f \in BufferFamilies(n - 1, m - Len(b))} : b \in SortedKeySeqs(m)}

TaggedBuffer(keys, t) == [j \in 1..Len(keys) |-> <<keys[j], <<t, j>>>>]

\* The state in which worker 0 has returned from the first barrier() and the
\* other workers wait in the second one.
ShuffleInit ==
    /\ threadCount \in 1..(MaxWork - 1)
    /\ \E fam \in BufferFamilies(threadCount, MaxPairs) :
          intermediateVec = [t \in Workers |-> TaggedBuffer(fam[t + 1], t)]
    /\ inputVec = <<>>
    /\ outputVec = <<>>
    /\ vecIndex = threadCount
    /\ jobState = encodeJobState(MAP_STAGE, 0, 0)
    /\ outputMutex = NoThread
    /\ shuffledVecsQueue = <<>>
    /\ count = threadCount - 1
    /\ generation = 1
    /\ myGen = [t \in Workers |-> IF IsCoordinator(t) THEN 0 ELSE 1]
    /\ pc = [t \in Workers |-> IF IsCoordinator(t) THEN "shuffle_start" ELSE "wait2"]
    /\ index = [t \in Workers |-> t]
    /\ emitArg = [t \in Workers |-> <<>>]
    /\ pq = {}
    /\ indices = [t \in Workers |-> 0]
    /\ currKey = NoKey
    /\ group = <<>>
    /\ mainPc = "started"
    /\ spawned = threadCount
    /\ mapLog = EmptyBag
    /\ reduceLog = EmptyBag
    /\ arrived = [t \in Workers |-> IF IsCoordinator(t) THEN 1 ELSE 2]
    /\ returned = [t \in Workers |-> 1]
    /\ emitted = SumBags([t \in Workers |-> SeqToBag(intermediateVec[t])], Workers)
    /\ queueWriters = {}
    /\ ClientInit({})
    /\ wordCalc = NoWord

ShuffleNext ==
    \/ \E t \in Workers : ShuffleStart(t)
    \/ \E t \in Workers : ShuffleTop(t)
    \/ \E t \in Workers : ShuffleDrain(t)

ShuffleSpec == ShuffleInit /\ [][ShuffleNext]_vars

\* ------------------------------------------- the barrier on its own
\* threadCount participants that each call barrier() MaxRounds times in a
\* row, with nothing in between.
BarrierInit ==
    /\ threadCount \in 1..(MaxWork - 1)
    /\ inputVec = <<>>
    /\ outputVec = <<>>
    /\ vecIndex = 0
    /\ jobState = encodeJobState(UNDEFINED_STAGE, 0, 0)
    /\ outputMutex = NoThread
    /\ shuffledVecsQueue = <<>>
    /\ intermediateVec = [t \in Workers |-> <<>>]
    /\ count = 0
    /\ generation = 0
    /\ myGen = [t \in Workers |-> 0]
    /\ pc = [t \in Workers |-> "bar_call"]
    /\ index = [t \in Workers |-> 0]
    /\ emitArg = [t \in Workers |-> <<>>]
    /\ pq = {}
    /\ indices = [t \in Workers |-> 0]
    /\ currKey = NoKey
    /\ group = <<>>
    /\ mainPc = "started"
    /\ spawned = threadCount
    /\ mapLog = EmptyBag
    /\ reduceLog = EmptyBag
    /\ arrived = [t \in Workers |-> 0]
    /\ returned = [t \in Workers |-> 0]
    /\ emitted = EmptyBag
    /\ queueWriters = {}
    /\ ClientInit({})
    /\ wordCalc = NoWord

\* The participant's position after its k-th call of barrier() returned.
AfterRound(k) == IF k < MaxRounds THEN "bar_call" ELSE "bar_done"

BarrierCall(t) ==
    /\ pc[t] = "bar_call"
    /\ BarrierArrive(t, "bar_wait", AfterRound(arrived[t] + 1))
    /\ UNCHANGED <<jobVars, index, emitArg, shuffleVars, mainVars, process, wordCalc, clientVars>>
    /\ UNCHANGED <<mapLog, reduceLog, emitted, queueWriters>>

BarrierReturn(t) ==
    /\ pc[t] = "bar_wait"
    /\ BarrierWake(t, AfterRound(arrived[t]))
    /\ UNCHANGED <<jobVars, index, emitArg, shuffleVars, mainVars, process, wordCalc, clientVars>>
    /\ UNCHANGED <<mapLog, reduceLog, emitted, queueWriters>>

BarrierNext ==
    \/ \E t \in Workers : BarrierCall(t)
    \/ \E t \in Workers : BarrierReturn(t)

BarrierSpec == BarrierInit /\ [][BarrierNext]_vars

\* ------------------------------------------------------------- claims
MapPcs == {"idle", "map_claim", "map_done"}

ReducePcs == {"reduce_claim", "emit3_lock", "emit3_append", "reduce_done", "exit"}

\* Every worker has left the map loop and sorted its buffer.
MapPhaseOver == \A t \in Workers : pc[t] \notin MapPcs

\* Every worker has returned from runMapReduceJob.
AllExited == \A t \in Workers : pc[t] = "exit"

RECURSIVE SumOver(_, _)
\* The sum of f[x] for x in S.
SumOver(f, S) ==
    IF S = {} THEN 0
    ELSE LET x == CHOOSE y \in S : TRUE
         IN f[x] + SumOver(f, S \ {x})

\* The number of calls of the client's map for input index i.
MapCount(i) ==
    LET hits == {e \in BagToSet(mapLog) : e.idx = i}
    IN SumOver([e \in hits |-> CopiesIn(e, mapLog)], hits)

\* The number of calls of the client's reduce for bucket index i.
ReduceCount(i) ==
    LET hits == {e \in BagToSet(reduceLog) : e.idx = i}
    IN SumOver([e \in hits |-> CopiesIn(e, reduceLog)], hits)

\* C1: in the map phase, under every interleaving of the workers' fetch_add
\* claims, only indices 0..S-1 of the input are mapped, none is mapped twice
\* (by the same or by another worker), and once every worker has left the
\* map loop each index has been mapped exactly once.
C1_MapExactlyOnce ==
    /\ \A e \in BagToSet(mapLog) : e.idx \in 0..(Len(inputVec) - 1)
    /\ \A i \in 0..(Len(inputVec) - 1) : MapCount(i) <= 1
    /\ MapPhaseOver => \A i \in 0..(Len(inputVec) - 1) : MapCount(i) = 1

\* Two workers have shared the input: each mapped one of two records.
C1_Witness ==
    /\ MapPhaseOver
    /\ threadCount >= 2
    /\ Len(inputVec) >= 2
    /\ \E e1, e2 \in BagToSet(mapLog) : e1.by # e2.by

\* C2: in the reduce phase, although the work index went past the input size
\* in the map phase, only buckets 0..B-1 of the shuffled queue are reduced,
\* each call gets the bucket at its index, none is reduced twice, and once
\* every worker has exited each bucket has been reduced exactly once.
C2_ReduceExactlyOnce ==
    /\ \A e \in BagToSet(reduceLog) :
          /\ e.idx \in 0..(Len(shuffledVecsQueue) - 1)
          /\ e.bucket = shuffledVecsQueue[e.idx + 1]
    /\ \A i \in 0..(Len(shuffledVecsQueue) - 1) : ReduceCount(i) <= 1
    /\ AllExited => \A i \in 0..(Len(shuffledVecsQueue) - 1) : ReduceCount(i) = 1

\* Two workers have shared two buckets after a map phase of two workers.
C2_Witness ==
    /\ AllExited
    /\ threadCount >= 2
    /\ Len(shuffledVecsQueue) >= 2
    /\ \E e1, e2 \in BagToSet(reduceLog) : e1.by # e2.by

\* performShuffleStage has returned to runMapReduceJob.
ShuffleDone == \E t \in Workers : pc[t] = "store_reduce"

\* The pairs of all buckets of the shuffled queue, as a bag.
BucketPairs ==
    SumBags([i \in 1..Len(shuffledVecsQueue) |-> SeqToBag(shuffledVecsQueue[i])],
            1..Len(shuffledVecsQueue))

\* The pairs of all per-worker buffers, as a bag.
BufferPairs == SumBags([t \in Workers |-> SeqToBag(intermediateVec[t])], Workers)

\* The workers whose buffers hold a pair of the bucket.
BucketSources(bucket) ==
    {t \in Workers : \E i \in 1..Len(bucket), j \in 1..Len(intermediateVec[t]) :
                        bucket[i] = intermediateVec[t][j]}

\* C3: when the K-way merge of sorted per-worker buffers has finished, the
\* bag of the pairs of all buckets equals the bag of the pairs of all buffers:
\* no pair is dropped and none is duplicated.
C3_ShuffleExhaustive == ShuffleDone => BucketPairs = BufferPairs

\* A finished merge of at least two non-empty buffers into at least two
\* buckets, one of which holds pairs of two workers.
C3_Witness ==
    /\ ShuffleDone
    /\ Cardinality({t \in Workers : intermediateVec[t] # <<>>}) >= 2
    /\ Len(shuffledVecsQueue) >= 2
    /\ \E i \in 1..Len(shuffledVecsQueue) :
          Cardinality(BucketSources(shuffledVecsQueue[i])) >= 2

\* C4: at every moment of the shuffle, any two pairs of one bucket of the
\* shuffled queue have equivalent keys.
C4_BucketHomogeneous ==
    \A i \in 1..Len(shuffledVecsQueue) :
        \A a, b \in 1..Len(shuffledVecsQueue[i]) :
            /\ ~KeyLess(shuffledVecsQueue[i][a][1], shuffledVecsQueue[i][b][1])
            /\ ~KeyLess(shuffledVecsQueue[i][b][1], shuffledVecsQueue[i][a][1])

\* A queue with a bucket of several pairs although the buffers hold a pair
\* of another key as well.
C4_Witness ==
    /\ ShuffleDone
    /\ \E i \in 1..Len(shuffledVecsQueue) : Len(shuffledVecsQueue[i]) >= 2
    /\ Len(shuffledVecsQueue) >= 2

\* C5: no bucket is empty and the keys of the buckets are strictly ascending:
\* every pair of an earlier bucket has a key less than every pair of a later
\* bucket, so two buckets never hold equivalent keys and a key equivalence
\* class is never split over two buckets.
C5_BucketsAscending ==
    /\ \A i \in 1..Len(shuffledVecsQueue) : shuffledVecsQueue[i] # <<>>
    /\ \A i, j \in 1..Len(shuffledVecsQueue) :
          i < j =>
             \A a \in 1..Len(shuffledVecsQueue[i]), b \in 1..Len(shuffledVecsQueue[j]) :
                KeyLess(shuffledVecsQueue[i][a][1], shuffledVecsQueue[j][b][1])
    /\ ShuffleDone =>
          \A t, u \in Workers :
             \A i \in 1..Len(intermediateVec[t]), j \in 1..Len(intermediateVec[u]) :
                KeyEquiv(intermediateVec[t][i][1], intermediateVec[u][j][1]) =>
                   \E b \in 1..Len(shuffledVecsQueue) :
                      /\ \E a \in 1..Len(shuffledVecsQueue[b]) :
                            shuffledVecsQueue[b][a] = intermediateVec[t][i]
                      /\ \E a \in 1..Len(shuffledVecsQueue[b]) :
                            shuffledVecsQueue[b][a] = intermediateVec[u][j]

\* Two workers emitted pairs of one key, a worker emitted a pair of another
\* key, and the merge has finished.
C5_Witness ==
    /\ ShuffleDone
    /\ \E t, u \in Workers :
          /\ t # u
          /\ \E i \in 1..Len(intermediateVec[t]), j \in 1..Len(intermediateVec[u]) :
                KeyEquiv(intermediateVec[t][i][1], intermediateVec[u][j][1])
          /\ \E i, j \in 1..Len(intermediateVec[t]) :
                KeyLess(intermediateVec[t][i][1], intermediateVec[t][j][1])

\* The keys of the pairs handed to emit2.
EmittedKeys == {e[1] : e \in BagToSet(emitted)}

\* The number of pairs handed to emit2 with a key equivalent to k.
EmittedCount(k) ==
    LET hits == {e \in BagToSet(emitted) : KeyEquiv(e[1], k)}
    IN SumOver([e \in hits |-> CopiesIn(e, emitted)], hits)

\* C6: when the job is over, the client's reduce has been called as many
\* times as there are distinct keys among the pairs handed to emit2, and for
\* each such key exactly one call got a bucket of that key, whose size is the
\* number of pairs emitted with that key.
C6_ReduceCallsPerKey ==
    AllExited =>
       /\ BagCardinality(reduceLog) = Cardinality(EmittedKeys)
       /\ \A k \in EmittedKeys :
             LET calls == {e \in BagToSet(reduceLog) :
                             \A i \in 1..Len(e.bucket) : KeyEquiv(e.bucket[i][1], k)}
             IN /\ Cardinality(calls) = 1
                /\ \A e \in calls : /\ CopiesIn(e, reduceLog) = 1
                                    /\ Len(e.bucket) = EmittedCount(k)

\* A finished job of several workers in which two records emitted the same
\* key from different workers: one bucket of size 2, one call of reduce.
C6_Witness ==
    /\ AllExited
    /\ threadCount >= 2
    /\ BagCardinality(reduceLog) = 1
    /\ \E e \in BagToSet(reduceLog) :
          /\ Len(e.bucket) = 2
          /\ Cardinality(BucketSources(e.bucket)) = 2

RECURSIVE TotalCount(_, _)
\* The occurrences of character c in all strings of the input.
TotalCount(input, c) ==
    IF input = <<>> THEN 0
    ELSE CharCount(input[1], c) + TotalCount(Tail(input), c)

\* The per-key aggregate of the input: one pair <<c, occurrences of c>> for
\* each character that occurs.
ExpectedOutput(input) ==
    SetToBag({<<c, TotalCount(input, c)>> : c \in {k \in Keys : TotalCount(input, k) > 0}})

\* C7: when the job is over, the bag of the pairs of the output vector is the
\* per-key aggregate of the input, a function of the input alone: it is the
\* same for every worker count and every interleaving.
C7_OutputIsAggregate == AllExited => SeqToBag(outputVec) = ExpectedOutput(inputVec)

\* A finished job of several workers whose output holds a count that sums
\* pairs emitted by two workers.
C7_Witness ==
    /\ AllExited
    /\ threadCount >= 2
    /\ \E i \in 1..Len(outputVec) : outputVec[i][2] >= 2
    /\ Cardinality({t \in Workers : intermediateVec[t] # <<>>}) >= 2

\* C8: no call of barrier() returns before every participant has made the
\* call of the same number (the k-th return of one needs the k-th arrival of
\* all), and a caller that waits in its k-th call can return as soon as all
\* participants have made their k-th call, whether or not faster participants
\* have already arrived again for generation k+1.
C8_BarrierGenerations ==
    /\ \A t, u \in Workers : returned[t] <= arrived[u]
    /\ \A t \in Workers :
          (pc[t] = "bar_wait" /\ \A u \in Workers : arrived[u] >= arrived[t])
             => ENABLED BarrierReturn(t)

\* A slow participant still waits in its k-th call while a fast one, released
\* from the k-th, already waits in its (k+1)-th.
C8_Witness ==
    \E t, u \in Workers :
       /\ pc[t] = "bar_wait"
       /\ pc[u] = "bar_wait"
       /\ arrived[t] >= 2
       /\ arrived[u] = arrived[t] + 1
       /\ returned[u] = arrived[t]

\* Worker 0 is about to read the buffers in performShuffleStage, or has.
ShuffleBegun ==
    \/ \E t \in Workers : pc[t] = "shuffle_start"
    \/ jobState.stage \in {SHUFFLE_STAGE, REDUCE_STAGE}

\* C9: from the moment worker 0 enters performShuffleStage, every worker has
\* left the map loop and sorted its buffer, every buffer is sorted by key, and
\* no step changes a buffer or calls emit2 any more.
C9_MapBeforeShuffle ==
    /\ [](ShuffleBegun =>
             /\ MapPhaseOver
             /\ \A t \in Workers : IsSortedByKey(intermediateVec[t]))
    /\ [][ShuffleBegun => (intermediateVec' = intermediateVec /\ emitted' = emitted)]_vars

\* The coordinator merges buffers that other workers filled, while another
\* worker has not yet returned from the first barrier().
C9_Witness ==
    /\ pc[0] = "shuffle_drain"
    /\ \E t \in Workers : t # 0 /\ intermediateVec[t] # <<>> /\ pc[t] = "wait1"

\* Worker 0 has left its shuffle block and called the second barrier().
CoordinatorDone == pc[0] \in ({"wait2"} \cup ReducePcs)

\* C10: while a worker is in the reduce phase, worker 0 has finished the
\* shuffle, the progress word holds (reduce, _, bucket count), the work index
\* was reset, and the claims made since are the only increments of it; the
\* shuffled queue is changed only by worker 0 in performShuffleStage between
\* the release of the first barrier and that of the second.
C10_ShuffleBeforeReduce ==
    /\ []((\E t \in Workers : pc[t] \in ReducePcs) =>
             /\ CoordinatorDone
             /\ generation = 2
             /\ jobState.stage = REDUCE_STAGE
             /\ jobState.total = Len(shuffledVecsQueue)
             /\ vecIndex = Cardinality({t \in Workers : pc[t] = "exit"})
                              + BagCardinality(reduceLog))
    /\ [][shuffledVecsQueue' # shuffledVecsQueue =>
             /\ pc[0] = "shuffle_drain"
             /\ queueWriters' = {0}
             /\ generation = 1]_vars

\* A worker other than worker 0 reduces a bucket while worker 0 has not yet
\* returned from the second barrier().
C10_Witness ==
    /\ pc[0] = "wait2"
    /\ \E t \in Workers : t # 0 /\ pc[t] = "emit3_lock"
    /\ Len(shuffledVecsQueue) >= 2

\* ------------------------------------------------ the progress word's stage
\* C11: the stage of the progress word only moves forward along undefined,
\* map, shuffle, reduce: once startMapReduceJob has returned it is not
\* undefined, no step takes it to an earlier stage, and each getJobState of a
\* client reports a stage at least as late as the client's previous one.
C11_StageForward ==
    /\ [](mainPc = "started" => jobState.stage # UNDEFINED_STAGE)
    /\ [][jobState'.stage >= jobState.stage]_vars
    /\ [][\A c \in Clients : obs'[c].stage >= obs[c].stage]_vars

\* A client that saw the shuffle stage while the word has moved on to reduce.
C11_Witness ==
    /\ jobState.stage = REDUCE_STAGE
    /\ \E c \in Clients : obs[c].stage = SHUFFLE_STAGE

\* C12, as claimed: the progress word leaves the map stage for reduce when the
\* map phase produced no pair, and for shuffle when it produced one.
C12_ShuffleOmittedIffNoPairs ==
    [][(jobState.stage = MAP_STAGE /\ jobState'.stage # MAP_STAGE)
         => jobState'.stage =
               (IF emitted = EmptyBag THEN REDUCE_STAGE ELSE SHUFFLE_STAGE)]_vars

\* C12, amended: the progress word never omits the shuffle stage.  It leaves
\* the map stage only for (shuffle, 0, number of pairs), also when that number
\* is 0, and it enters the reduce stage only from the shuffle stage.
C12_ShuffleNeverOmitted ==
    /\ [][(jobState.stage = MAP_STAGE /\ jobState'.stage # MAP_STAGE)
            => jobState' = encodeJobState(SHUFFLE_STAGE, 0, BagCardinality(emitted))]_vars
    /\ [][(jobState'.stage = REDUCE_STAGE /\ jobState.stage # REDUCE_STAGE)
            => jobState.stage = SHUFFLE_STAGE]_vars

\* The word holds the shuffle stage in a job whose map phase produced no pair.
C12_Witness ==
    /\ jobState = encodeJobState(SHUFFLE_STAGE, 0, 0)
    /\ emitted = EmptyBag
    /\ Len(inputVec) > 0

\* C13: while the stage stays the same, processed does not decrease and total
\* does not change, in the progress word and in two successive getJobState
\* of a client; processed decreases only in a step that changes the stage, and
\* then to 0.
C13_ProgressWithinStage ==
    /\ [][jobState'.stage = jobState.stage
            => /\ jobState'.processed >= jobState.processed
               /\ jobState'.total = jobState.total]_vars
    /\ [][jobState'.processed < jobState.processed
            => /\ jobState'.stage # jobState.stage
               /\ jobState'.processed = 0]_vars
    /\ [][\A c \in Clients :
            obs'[c].stage = obs[c].stage
               => /\ obs'[c].processed >= obs[c].processed
                  /\ obs'[c].total = obs[c].total]_vars

\* A client saw the map stage with one record processed, and more have been
\* processed since within the same stage.
C13_Witness ==
    /\ jobState.stage = MAP_STAGE
    /\ \E c \in Clients :
          /\ obs[c].stage = MAP_STAGE
          /\ obs[c].processed > 0
          /\ jobState.processed > obs[c].processed

\* The fraction q is between 0 and 100.
PercentageInRange(q) == q.den > 0 /\ 0 <= q.num /\ q.num <= 100 * q.den

\* C14: processed never exceeds total, in the progress word and in what a
\* getJobState decoded, so the percentage getJobState computes is in 0..100.
C14_ProcessedWithinTotal ==
    /\ jobState.processed <= jobState.total
    /\ PercentageInRange(DecodeJobState(jobState).percentage)
    /\ \A c \in Clients :
          /\ obs[c].processed <= obs[c].total
          /\ PercentageInRange(obs[c].percentage)

\* A claim of the work index has overshot the input while the word is still in
\* the map stage, and a client has seen that stage at 100%.
C14_Witness ==
    /\ jobState.stage = MAP_STAGE
    /\ Len(inputVec) > 0
    /\ vecIndex > Len(inputVec)
    /\ \E c \in Clients :
          /\ obs[c].stage = MAP_STAGE
          /\ PercentageIs(obs[c].percentage, 100)

\* ------------------------------------------------------------ termination
\* C15: under fair scheduling every job terminates: all its workers exit.
C15_Terminates == <>AllExited

\* A job has ended in which a worker found no record to map and no bucket to
\* reduce.
C15_Witness ==
    /\ AllExited
    /\ Len(inputVec) < threadCount
    /\ \E t \in Workers :
          /\ \A i \in 0..(Len(inputVec) - 1) :
                CopiesIn([idx |-> i, by |-> t], mapLog) = 0
          /\ \A e \in BagToSet(reduceLog) : e.by # t
          /\ returned[t] = 2

\* C16: a job with an empty input never calls map or reduce, leaves the output
\* vector and the bucket queue empty, can always go on until its workers have
\* exited, and getJobState then reports the reduce stage at 100%.
C16_EmptyInput ==
    Len(inputVec) = 0 =>
        /\ mapLog = EmptyBag
        /\ reduceLog = EmptyBag
        /\ emitted = EmptyBag
        /\ outputVec = <<>>
        /\ shuffledVecsQueue = <<>>
        /\ ~AllExited => ENABLED Next
        /\ AllExited =>
              /\ DecodeJobState(jobState).stage = REDUCE_STAGE
              /\ PercentageIs(DecodeJobState(jobState).percentage, 100)

\* The workers of a job with an empty input, more than one of them, have
\* exited and the client's getJobState has reported the final state.
C16_Witness ==
    /\ Len(inputVec) = 0
    /\ threadCount > 1
    /\ AllExited
    /\ \E c \in Clients :
          /\ obs[c] = DecodeJobState(jobState)
          /\ obs[c].stage = REDUCE_STAGE
          /\ PercentageIs(obs[c].percentage, 100)

\* ------------------------------------------------------- wait and close
\* C17: once a waitForJob has returned, no later waitForJob and no
\* closeJobHandle enters the loop of joins, no thread is ever joined twice (so
\* no join throws), and no later step changes the job's state, the output
\* vector, the progress word or the workers.
C17_WaitIdempotent ==
    /\ [](\A t \in Workers : joined[t] <= 1)
    /\ [](\A c \in Clients : apiPc[c].at # "exit1")
    /\ [](waitsReturned > 0
            => /\ calledWaitForJob
               /\ \A c \in Clients : apiPc[c].at # "join")
    /\ [][waitsReturned > 0
            => /\ joined' = joined
               /\ jobVars' = jobVars
               /\ workerVars' = workerVars
               /\ calledWaitForJob' = calledWaitForJob]_vars

\* A second waitForJob has returned; every thread has been joined once.
C17_Witness ==
    /\ waitsReturned = 2
    /\ \A t \in Workers : joined[t] = 1

\* C18: the job context is deleted, and the delete of closeJobHandle is
\* reached, only when every worker has left its thread function and has been
\* joined.
C18_CloseAfterWorkers ==
    (freed \/ \E c \in Clients : apiPc[c].at = "delete")
       => /\ AllExited
          /\ \A t \in Workers : joined[t] = 1

\* closeJobHandle has deleted the context of a job nobody had waited for, with
\* more than one worker.
C18_Witness ==
    /\ freed
    /\ waitsReturned = 0
    /\ threadCount > 1

\* C19: once a waitForJob has returned, the progress word holds the reduce
\* stage with processed equal to total and does not change any more, and every
\* getJobState reports the reduce stage at 100%.
C19_DoneAfterWait ==
    /\ [](waitsReturned > 0
            => /\ jobState.stage = REDUCE_STAGE
               /\ jobState.processed = jobState.total)
    /\ [][waitsReturned > 0 => jobState' = jobState]_vars
    /\ [][waitsReturned > 0
            => \A c \in Clients :
                  obs'[c] # obs[c]
                     => /\ obs'[c].stage = REDUCE_STAGE
                        /\ obs'[c].processed = obs'[c].total
                        /\ PercentageIs(obs'[c].percentage, 100)]_vars

\* After a waitForJob returned, a client's getJobState has reported the final
\* state of a job that reduced a bucket.
C19_Witness ==
    /\ waitsReturned > 0
    /\ ~freed
    /\ jobState.total > 0
    /\ \E c \in Clients :
          /\ obs[c] = DecodeJobState(jobState)
          /\ PercentageIs(obs[c].percentage, 100)

\* ---------------------------------------------------------- output vector
\* The workers inside emit3's emplace_back.
Appending == {t \in Workers : pc[t] = "emit3_append"}

\* The calls of emit3 that have not yet appended.
PendingEmits == {t \in Workers : pc[t] \in {"emit3_lock", "emit3_append"}}

\* C20: at most one worker is inside the append of emit3, and it owns the
\* mutex; the output vector, empty at the start, holds one entry per call of
\* emit3 that has appended, so one per call once the workers have exited, and
\* its entries are the pairs the reduce calls handed to emit3.
C20_OutputAppends ==
    /\ Cardinality(Appending) <= 1
    /\ \A t \in Appending : outputMutex = t
    /\ Len(outputVec) + Cardinality(PendingEmits) = BagCardinality(reduceLog)
    /\ AllExited =>
          /\ Len(outputVec) = BagCardinality(reduceLog)
          /\ \A e \in BagToSet(reduceLog) :
                \E i \in 1..Len(outputVec) : outputVec[i] = ClientReduce(e.bucket)

\* One worker is inside the append while another waits for the mutex.
C20_Witness ==
    \E t, u \in Workers :
        /\ pc[t] = "emit3_append"
        /\ pc[u] = "emit3_lock"

\* ---------------------------------------------------------- system errors
\* C21, as claimed: when an allocation fails in emit2 or in the shuffle, the
\* engine writes the one line `system error: <description>` to std::cerr and
\* the process ends with exit code 1, as it does when thread creation or the
\* output mutex fails.
C21_AllocFailureIsSystemError ==
    process.fault = "alloc" =>
        /\ process.status = "exit1"
        /\ Len(process.stderr) = 1
        /\ process.stderr[1].prefix = "system error: "

\* ---------------------------------------------------------- progress word
\* C22: decoding an encoded word gives back the stage, processed and total
\* it was encoded from, and each addition of 1 << 31 to a word whose processed
\* is below its total raises processed by one and leaves stage and total as
\* they were.
C22_WordArithmetic ==
    wordCalc.at = "decoded" =>
        wordCalc.out = [stage |-> wordCalc.in.stage,
                        processed |-> wordCalc.in.processed + wordCalc.adds,
                        total |-> wordCalc.in.total]

\* A word of the reduce stage with the largest total was incremented up to
\* processed = total = 2^31-1 and then decoded.
C22_Witness ==
    /\ wordCalc.at = "decoded"
    /\ wordCalc.adds > 0
    /\ wordCalc.in.stage = REDUCE_STAGE
    /\ wordCalc.in.total = FieldMask
    /\ wordCalc.out.processed = FieldMask

\* ------------------------------------------------------------- completion
\* The progress word reads as the reduce stage at 100%.
ReadsAsDone == jobState.stage = REDUCE_STAGE /\ jobState.processed = jobState.total

\* C23: whenever the progress word holds the reduce stage with processed
\* equal to total, reduce has been called on every bucket, every such call has
\* returned (no worker is inside reduce, inside emit3 or before the fetch_add
\* that follows reduce) and the output vector holds the pair of every call.
C23_DoneMeansReduced ==
    ReadsAsDone =>
        /\ \A t \in Workers : pc[t] \notin {"emit3_lock", "emit3_append", "reduce_done"}
        /\ \A i \in 0..(Len(shuffledVecsQueue) - 1) : ReduceCount(i) = 1
        /\ Len(outputVec) = BagCardinality(reduceLog)
        /\ \A e \in BagToSet(reduceLog) :
              \E i \in 1..Len(outputVec) : outputVec[i] = ClientReduce(e.bucket)

\* The word reads as done after two buckets were reduced, while a worker has
\* not yet left its reduce loop.
C23_Witness ==
    /\ ReadsAsDone
    /\ jobState.total > 1
    /\ \E t \in Workers : pc[t] = "reduce_claim"

\* ------------------------------------------------------ concurrent callers
\* C24, as claimed: whatever the interleaving of the callers of waitForJob and
\* closeJobHandle on a handle, join() is called at most once on each worker's
\* thread.
C24_JoinedAtMostOnce == \A t \in Workers : joined[t] <= 1
====
